---- MODULE Spec2Model ----
(***************************************************************************)
(* View-partitioned particle cleaning (arachnid, app/diffclean.py):        *)
(* grouping of particles by view, the per-view map step, the reduction of  *)
(* per-view decisions into the per-micrograph selection registry           *)
(* (sel_by_mic) and the finalize step that merges finished views and       *)
(* writes the selection records.                                           *)
(*                                                                         *)
(* Conventions.  A label is a sequence of particles [mic, idx] (micrograph *)
(* identifier, 0-based slice index) together with its shape: "tuple" for   *)
(* (filename, array) and "list" for [(filename, index), ...].  Sequences   *)
(* are 1-based here, arrays 0-based in the source.  A Python exception is  *)
(* a result with raised = TRUE.                                            *)
(***************************************************************************)
EXTENDS Integers, Sequences, FiniteSets, TLC

VARIABLES
    \* ---- update_selection_dict / reduce_all applied to drawn inputs
    upd_pc,        \* "in" before the calls, "out" after
    upd_shape,     \* shape of the labels of both view results
    upd_reg,       \* the registry the calls start from
    upd_A,         \* view result A: [view, label, rsel]
    upd_B,         \* view result B
    upd_out,       \* registries obtained by the calls
    \* ---- group_by_reference applied to drawn inputs
    grp_pc,        \* "in" before the call, "out" after
    grp_shape,     \* shape of label
    grp_label,     \* label of every particle, in alignment order
    grp_ref,       \* view number of every particle
    grp_out,       \* [raised, group]
    \* ---- one run of the program (init_root, process, reduce_all, finalize)
    pc,            \* position of the root process
    label_shape,   \* shape of the labels read from the alignment file
    single_view,   \* param['single_view']
    layout,        \* how the particles are spread over the micrographs
    counts,        \* number of particles of each view in the alignment file
    group,         \* the views init_root returned
    finished,      \* views whose output exists from an earlier run
    unreadable,    \* finished views whose persisted artifact cannot be read
    todo,          \* views still to be handed to process
    inflight,      \* results process returned, not yet reduced
    processed,     \* view numbers handed to process in this run
    sel_by_mic,    \* the SelectionRegistry
    artifact,      \* persisted per-view select column
    merged,        \* per view, the decision merged into the registry
    fin_i,         \* number of finished views finalize has gone through
    records,       \* selection records written by finalize
    log,           \* what the run reported
    failure,       \* the exception that ended the run, if any
    \* ---- diffclean.one_class_classification applied to drawn inputs
    occ_pc,        \* "in" before the calls, "out" after
    occ_cond,      \* which covariance fits succeed on feat
    occ_ncols,     \* number of columns of feat
    occ_neig,      \* neig
    occ_dist,      \* distance the fitted estimator gives to every sample
    occ_p,         \* the two values of prob_reject, as indices of ProbGrid
    occ_out,       \* results of the call, one for each prob_reject
    \* ---- analysis.pca and analysis._assess_dimension on drawn inputs
    pca_pc,        \* "in" before the call, "out" after
    pca_call,      \* the function called: "pca" or "_assess_dimension"
    pca_rows,      \* trn.shape[0]
    pca_cols,      \* trn.shape[1]
    pca_frac,      \* frac, in units of 1/Unit
    pca_t,         \* normalised variance spectrum t: [nan, v]
    pca_ll,        \* score ll of every candidate rank: [finite, v]
    pca_out,       \* result of the call
    \* ---- analysis.one_class_selection, one_class_distance and
    \* one_class_classification applied to drawn inputs
    ocs_pc,        \* "in" before the calls, "out" after
    ocs_data,      \* the data values
    ocs_nstd_min,  \* nstd_min
    ocs_out,       \* results of the calls
    \* ---- analysis.running_variance and analysis.otsu on drawn inputs
    otsu_pc,       \* "in" before the call, "out" after
    otsu_call,     \* the function called: "running_variance" or "otsu"
    otsu_dtype,    \* dtype of the array: "int" or "float"
    otsu_data,     \* the values of the array
    otsu_bins,     \* bins
    otsu_out,      \* result of the call
    \* ---- the per-view artifact: written by process, read by finalize
    art_pc,        \* "in", then "written" by process, then "read" by finalize
    art_shape,     \* shape of the labels
    art_nfeat,     \* number of feature columns of feat
    art_neig,      \* neig
    art_sel,       \* the inline decision written to the select column
    art_idcol,     \* whether the table read back has a leading id column
    art_table,     \* the persisted table: [columns, select]
    art_feat,      \* columns finalize hands to one_class_classification
    \* ---- spider_prep.batch applied to drawn inputs
    prep_pc,       \* "in" before the call, "out" after
    prep_files,    \* files
    prep_recorded, \* the selection file: [exists, rows]
    prep_exists,   \* indices whose output file exists
    prep_out       \* result of the call

UpdVars == <<upd_pc, upd_shape, upd_reg, upd_A, upd_B, upd_out>>
GrpVars == <<grp_pc, grp_shape, grp_label, grp_ref, grp_out>>
RunVars == <<pc, label_shape, single_view, layout, counts, group, finished,
             unreadable, todo, inflight, processed, sel_by_mic, artifact, merged,
             fin_i, records, log, failure>>
OccVars == <<occ_pc, occ_cond, occ_ncols, occ_neig, occ_dist, occ_p, occ_out>>
PcaVars == <<pca_pc, pca_call, pca_rows, pca_cols, pca_frac, pca_t, pca_ll, pca_out>>
OcsVars == <<ocs_pc, ocs_data, ocs_nstd_min, ocs_out>>
OtsuVars == <<otsu_pc, otsu_call, otsu_dtype, otsu_data, otsu_bins, otsu_out>>
ArtVars == <<art_pc, art_shape, art_nfeat, art_neig, art_sel, art_idcol, art_table,
             art_feat>>
PrepVars == <<prep_pc, prep_files, prep_recorded, prep_exists, prep_out>>
ToolVars == <<OtsuVars, ArtVars, PrepVars>>
AnaVars == <<OccVars, PcaVars, OcsVars, ToolVars>>
vars == <<UpdVars, GrpVars, RunVars, AnaVars>>

----
\* Bound of the drawn inputs: the number of particles of the update
\* specification.
NParticles == 4

Shapes == {"tuple", "list"}
Mics == {1, 2}
EmptyReg == <<>>

\* The label of the p-th particle of an alignment file that deals its
\* particles to the micrographs in turn: every particle has its own
\* (micrograph, slice index).
ParticleLabel(p) == [mic |-> ((p - 1) % Cardinality(Mics)) + 1,
                     idx |-> (p - 1) \div Cardinality(Mics)]

RECURSIVE SeqsUpTo(_, _)
SeqsUpTo(S, n) ==
    IF n = 0 THEN {<<>>}
    ELSE LET shorter == SeqsUpTo(S, n - 1)
         IN  shorter \cup {Append(s, x) : s \in {t \in shorter : Len(t) = n - 1}, x \in S}

SeqsOfLen(S, n) == {s \in SeqsUpTo(S, n) : Len(s) = n}

----
\* numpy.argwhere(sel): the positions where sel is true, increasing.
ArgwhereAll(sel) == [i \in 1..Len(sel) |-> i]

Argwhere(sel) == SelectSeq([i \in 1..Len(sel) |-> i], LAMBDA i : sel[i])

\* numpy.sum(sel) for a boolean array.
RECURSIVE NumpySum(_)
NumpySum(sel) ==
    IF sel = <<>> THEN 0
    ELSE (IF Head(sel) THEN 1 ELSE 0) + NumpySum(Tail(sel))

\* sel_by_mic.setdefault(key, []).append(value)
SetDefaultOverwrite(reg, key, value) ==
    IF key \in DOMAIN reg
    THEN [reg EXCEPT ![key] = <<value>>]
    ELSE reg @@ (key :> <<value>>)

SetDefaultAppend(reg, key, value) ==
    IF key \in DOMAIN reg
    THEN [reg EXCEPT ![key] = Append(@, value)]
    ELSE reg @@ (key :> <<value>>)

\* The value update_selection_dict appends for particle p: int(label[i, 1]+1)
\* for the tuple shape, int(label[i][1])+1 for the list shape.
IndexZero(shape, p) == p.idx

IndexValue(shape, p) == p.idx + 1

\* The key: int(label[i, 0]) for the tuple shape, label[i][0] for the list shape.
MicKey(shape, p) == p.mic

\* update_selection_dict(sel_by_mic, label, sel); sel = None selects nothing
\* (numpy.argwhere(None) is empty).
RECURSIVE UpdateLoop(_, _, _, _)
UpdateLoop(reg, shape, label, idxs) ==
    IF idxs = <<>> THEN reg
    ELSE UpdateLoop(SetDefaultAppend(reg, MicKey(shape, label[Head(idxs)]),
                                     IndexValue(shape, label[Head(idxs)])),
                    shape, label, Tail(idxs))

\* An update that skips an index the list already holds.
RECURSIVE UpdateLoopDedup(_, _, _, _)
UpdateLoopDedup(reg, shape, label, idxs) ==
    IF idxs = <<>> THEN reg
    ELSE LET p == label[Head(idxs)]
             k == MicKey(shape, p)
             v == IndexValue(shape, p)
             has == k \in DOMAIN reg /\ \E j \in 1..Len(reg[k]) : reg[k][j] = v
         IN  UpdateLoopDedup(IF has THEN reg ELSE SetDefaultAppend(reg, k, v),
                             shape, label, Tail(idxs))

UpdateSelectionDictDedup(reg, shape, label, rsel) ==
    IF rsel.none THEN reg
    ELSE UpdateLoopDedup(reg, shape, label, Argwhere(rsel.sel))

\* An update that gives a key to the micrograph of every particle of the
\* view, accepted or not.
UpdateSelectionDictAllKeys(reg, shape, label, rsel) ==
    LET upd == IF rsel.none THEN reg
               ELSE UpdateLoop(reg, shape, label, Argwhere(rsel.sel))
        keys == {MicKey(shape, label[i]) : i \in 1..Len(label)}
    IN  [k \in DOMAIN upd \cup keys |-> IF k \in DOMAIN upd THEN upd[k] ELSE <<>>]

UpdateSelectionDict(reg, shape, label, rsel) ==
    IF rsel.none THEN reg
    ELSE UpdateLoop(reg, shape, label, Argwhere(rsel.sel))

\* A group-level decision that keeps every particle of the view.
GroupDecisionAll(sel) == [i \in 1..Len(sel) |-> TRUE]

\* one_class_classification: rsel = sel, the decision for each group of
\* rotated images is the decision for each image.
GroupDecision(sel) == sel

\* A decision of one_class_classification, or None.
Decision(sel) == [none |-> FALSE, sel |-> sel]
None == [none |-> TRUE, sel |-> <<>>]

\* reduce_all(val, sel_by_mic): the registry is updated first; the message is
\* built afterwards, and numpy.sum(None) is None, so that total-tot raises
\* TypeError for a skipped view.
ReduceAll(val, reg, shape) ==
    LET input == val.input
        sel == val.rsel
        label == input.label
        newreg == UpdateSelectionDict(reg, shape, label, sel)
        total == Len(label)
    IN  IF sel.none
        THEN [reg |-> newreg, raised |-> TRUE,
              msg |-> [view |-> input.view, selected |-> 0, removed |-> 0]]
        ELSE [reg |-> newreg, raised |-> FALSE,
              msg |-> [view |-> input.view, selected |-> NumpySum(sel.sel),
                       removed |-> total - NumpySum(sel.sel)]]

----
\* Inputs of the update specification: every particle belongs to view A,
\* to view B or to neither, and is accepted ("+") or rejected ("-") by the
\* classification of its view.
Roles == {"A+", "A-", "B+", "B-", "none"}

RolesOf(view) == IF view = 1 THEN {"A+", "A-"} ELSE {"B+", "B-"}

MembersOf(role, view) ==
    SelectSeq([p \in 1..NParticles |-> p], LAMBDA p : role[p] \in RolesOf(view))

ViewResult(role, view) ==
    [input |-> [view |-> view,
                label |-> [j \in 1..Len(MembersOf(role, view)) |->
                              ParticleLabel(MembersOf(role, view)[j])]],
     rsel |-> Decision([j \in 1..Len(MembersOf(role, view)) |->
                           role[MembersOf(role, view)[j]] \in {"A+", "B+"}])]

ViewResultPairs ==
    {<<ViewResult(role, 1), ViewResult(role, 2)>> :
        role \in {r \in [1..NParticles -> Roles] :
                     MembersOf(r, 1) # <<>> /\ MembersOf(r, 2) # <<>>}}

StartRegs == {EmptyReg, (1 :> <<1>>), (1 :> <<2, 1>>) @@ (2 :> <<1>>)}

NoResult == [input |-> [view |-> 0, label |-> <<>>], rsel |-> None]
NoOut == [a |-> EmptyReg, aa |-> EmptyReg, ab |-> EmptyReg, ba |-> EmptyReg]

UpdIdle ==
    /\ upd_pc = "idle"
    /\ upd_shape = "tuple"
    /\ upd_reg = EmptyReg
    /\ upd_A = NoResult
    /\ upd_B = NoResult
    /\ upd_out = NoOut

GrpIdle ==
    /\ grp_pc = "idle"
    /\ grp_shape = "tuple"
    /\ grp_label = <<>>
    /\ grp_ref = <<>>
    /\ grp_out = [raised |-> FALSE, group |-> <<>>]

RunIdle ==
    /\ pc = "idle"
    /\ label_shape = "tuple"
    /\ single_view = 0
    /\ layout = "alternate"
    /\ counts = <<>>
    /\ group = <<>>
    /\ finished = <<>>
    /\ unreadable = {}
    /\ todo = {}
    /\ inflight = {}
    /\ processed = {}
    /\ sel_by_mic = EmptyReg
    /\ artifact = <<>>
    /\ merged = <<>>
    /\ fin_i = 0
    /\ records = <<>>
    /\ log = {}
    /\ failure = "none"

OccIdle ==
    /\ occ_pc = "idle"
    /\ occ_cond = "regular"
    /\ occ_ncols = 1
    /\ occ_neig = 1
    /\ occ_dist = <<>>
    /\ occ_p = <<1, 1>>
    /\ occ_out = <<>>

PcaIdle ==
    /\ pca_pc = "idle"
    /\ pca_call = "pca"
    /\ pca_rows = 1
    /\ pca_cols = 1
    /\ pca_frac = 0
    /\ pca_t = [nan |-> TRUE, v |-> <<>>]
    /\ pca_ll = <<>>
    /\ pca_out = [raised |-> FALSE]

OcsIdle ==
    /\ ocs_pc = "idle"
    /\ ocs_data = <<>>
    /\ ocs_nstd_min = 1
    /\ ocs_out = <<>>

OtsuIdle ==
    /\ otsu_pc = "idle"
    /\ otsu_call = "otsu"
    /\ otsu_dtype = "int"
    /\ otsu_data = <<>>
    /\ otsu_bins = 0
    /\ otsu_out = [raised |-> FALSE]

ArtIdle ==
    /\ art_pc = "idle"
    /\ art_shape = "tuple"
    /\ art_nfeat = 1
    /\ art_neig = 1
    /\ art_sel = <<>>
    /\ art_idcol = FALSE
    /\ art_table = [columns |-> <<>>, select |-> <<>>]
    /\ art_feat = <<>>

PrepIdle ==
    /\ prep_pc = "idle"
    /\ prep_files = <<>>
    /\ prep_recorded = [exists |-> FALSE, rows |-> <<>>]
    /\ prep_exists = {}
    /\ prep_out = [raised |-> FALSE]

ToolIdle == OtsuIdle /\ ArtIdle /\ PrepIdle

AnaIdle == OccIdle /\ PcaIdle /\ OcsIdle /\ ToolIdle

\* ---- Specification SpecUpdate: update_selection_dict and reduce_all on
\* drawn registries and view results.
InitUpdate ==
    /\ upd_pc = "in"
    /\ upd_shape \in Shapes
    /\ upd_reg \in StartRegs
    /\ \E pair \in ViewResultPairs :
         /\ upd_A = pair[1]
         /\ upd_B = pair[2]
    /\ upd_out = NoOut
    /\ GrpIdle
    /\ RunIdle
    /\ AnaIdle

\* The calls: update once (a), update twice with the same view result (aa),
\* reduce_all in the order A, B (ab) and in the order B, A (ba).
ApplyUpdate ==
    /\ upd_pc = "in"
    /\ upd_pc' = "out"
    /\ upd_out' =
         LET once == UpdateSelectionDict(upd_reg, upd_shape, upd_A.input.label, upd_A.rsel)
         IN  [a  |-> once,
              aa |-> UpdateSelectionDict(once, upd_shape, upd_A.input.label, upd_A.rsel),
              ab |-> ReduceAll(upd_B, ReduceAll(upd_A, upd_reg, upd_shape).reg, upd_shape).reg,
              ba |-> ReduceAll(upd_A, ReduceAll(upd_B, upd_reg, upd_shape).reg, upd_shape).reg]
    /\ UNCHANGED <<upd_shape, upd_reg, upd_A, upd_B>>
    /\ UNCHANGED <<GrpVars, RunVars, AnaVars>>

NextUpdate == ApplyUpdate

SpecUpdate == InitUpdate /\ [][NextUpdate]_vars

----
\* Helpers of the properties.

\* Number of occurrences of v in the sequence s.
Occurrences(s, v) == Cardinality({j \in 1..Len(s) : s[j] = v})

SameBag(s, t) ==
    /\ Len(s) = Len(t)
    /\ \A j \in 1..Len(s) : Occurrences(s, s[j]) = Occurrences(t, s[j])

NoDuplicates(s) == \A i, j \in 1..Len(s) : s[i] = s[j] => i = j

\* The list registry reg holds for key k, empty when the key is absent.
ListOf(reg, k) == IF k \in DOMAIN reg THEN reg[k] ELSE <<>>

\* What one view result contributes to micrograph k: slice index + 1 of its
\* accepted particles of that micrograph, in label order.
AcceptedOf(label, sel, k) ==
    SelectSeq([i \in 1..Len(label) |-> i], LAMBDA i : sel[i] /\ label[i].mic = k)

Contribution(label, sel, k) ==
    [j \in 1..Len(AcceptedOf(label, sel, k)) |-> label[AcceptedOf(label, sel, k)[j]].idx + 1]

AcceptedMics(label, sel) == {label[i].mic : i \in {j \in 1..Len(label) : sel[j]}}

----
\* C1 (as stated): reducing two view results in the order A, B and in the
\* order B, A yields the same registry, list for list.
C1_SameRegistryAnyOrder ==
    upd_pc = "out" => upd_out.ab = upd_out.ba

\* C1 (amended): both orders yield the same micrograph keys and, for each
\* micrograph, the same indices with the same multiplicities; the lists are
\* equal when the two views accept no particle of a common micrograph.
C1_SameBagsAnyOrder ==
    upd_pc = "out" =>
        /\ DOMAIN upd_out.ab = DOMAIN upd_out.ba
        /\ \A k \in DOMAIN upd_out.ab : SameBag(upd_out.ab[k], upd_out.ba[k])
        /\ (AcceptedMics(upd_A.input.label, upd_A.rsel.sel)
              \cap AcceptedMics(upd_B.input.label, upd_B.rsel.sel) = {}
            => upd_out.ab = upd_out.ba)

C1_Witness ==
    /\ upd_pc = "out"
    /\ AcceptedMics(upd_A.input.label, upd_A.rsel.sel)
         \cap AcceptedMics(upd_B.input.label, upd_B.rsel.sel) # {}
    /\ upd_out.ab # upd_out.ba
    /\ upd_reg # EmptyReg

\* C2 (as stated): updating twice with the same view result yields the same
\* registry as updating once.
C2_Idempotent ==
    upd_pc = "out" => upd_out.aa = upd_out.a

\* C2 (amended): the second update with the same view result appends the
\* view's accepted indices once more: each list is the list after the first
\* update followed by the view's contribution to that micrograph.
C2_SecondUpdateAppendsAgain ==
    upd_pc = "out" =>
        /\ DOMAIN upd_out.aa = DOMAIN upd_out.a
        /\ \A k \in DOMAIN upd_out.aa :
              upd_out.aa[k] = upd_out.a[k] \o Contribution(upd_A.input.label, upd_A.rsel.sel, k)

C2_Witness ==
    /\ upd_pc = "out"
    /\ \E k \in DOMAIN upd_out.aa :
          /\ Contribution(upd_A.input.label, upd_A.rsel.sel, k) # <<>>
          /\ ~NoDuplicates(upd_out.aa[k])
          /\ NoDuplicates(upd_out.a[k])

\* C4: update_selection_dict appends to each micrograph's list the slice
\* index + 1 of the accepted particles of that micrograph, in increasing
\* particle order, creates a list for an absent key, appends nothing for a
\* rejected particle and leaves the entries already present in place.
C4_UpdateAppendsAccepted ==
    upd_pc = "out" =>
        /\ DOMAIN upd_out.a = DOMAIN upd_reg \cup AcceptedMics(upd_A.input.label, upd_A.rsel.sel)
        /\ \A k \in DOMAIN upd_out.a :
              upd_out.a[k] = ListOf(upd_reg, k) \o Contribution(upd_A.input.label, upd_A.rsel.sel, k)

C4_Witness ==
    /\ upd_pc = "out"
    /\ Len(upd_A.input.label) = 2
    /\ upd_A.rsel.sel = <<FALSE, TRUE>>
    /\ upd_A.input.label[2].mic \notin DOMAIN upd_reg
    /\ upd_A.input.label[2].mic \in DOMAIN upd_out.a
    /\ upd_reg # EmptyReg

----
\* ---- Specification SpecGroup: group_by_reference on drawn inputs.
NRefs == 3
MaxGrpLen == 4

Refs == 1..NRefs

\* numpy.unique(ref): the distinct values, ascending.
RECURSIVE SortedSeq(_)
SortedSeq(S) ==
    IF S = {} THEN <<>>
    ELSE LET m == CHOOSE x \in S : \A y \in S : x <= y
         IN  <<m>> \o SortedSeq(S \ {m})

NumpyUnique(ref) == SortedSeq({ref[i] : i \in 1..Len(ref)})

\* a[sel] for a boolean mask sel: the rows where sel is true, in order.
MaskSelect(a, sel) == [j \in 1..Len(Argwhere(sel)) |-> a[Argwhere(sel)[j]]]

\* [label[i] for i in numpy.argwhere(sel).squeeze()]: squeeze of a single
\* row is 0-d, and iterating a 0-d array raises TypeError.
SqueezeIterRaises(sel) == Len(Argwhere(sel)) = 1

\* The loop over refs; stops at the first view whose selection raises.
RECURSIVE GroupLoop(_, _, _, _, _, _)
GroupLoop(shape, label, align, ref, refs, acc) ==
    IF refs = <<>> THEN [raised |-> FALSE, group |-> acc]
    ELSE LET r == Head(refs)
             sel == [i \in 1..Len(ref) |-> r = ref[i]]
         IN  IF shape = "list" /\ SqueezeIterRaises(sel)
             THEN [raised |-> TRUE, group |-> <<>>]
             ELSE GroupLoop(shape, label, align, ref, Tail(refs),
                            Append(acc, [view |-> r,
                                         label |-> MaskSelect(label, sel),
                                         align |-> MaskSelect(align, sel)]))

GroupByReference(shape, label, align, ref) ==
    GroupLoop(shape, label, align, ref, NumpyUnique(ref), <<>>)

\* The alignment rows of the drawn input: row i is identified by i.
RowIds(n) == [i \in 1..n |-> i]

InitGroup ==
    /\ grp_pc = "in"
    /\ grp_shape \in Shapes
    /\ \E n \in 0..MaxGrpLen :
         /\ grp_label = [p \in 1..n |-> ParticleLabel(p)]
         /\ grp_ref \in SeqsOfLen(Refs, n)
    /\ grp_out = [raised |-> FALSE, group |-> <<>>]
    /\ UpdIdle
    /\ RunIdle
    /\ AnaIdle

ApplyGroup ==
    /\ grp_pc = "in"
    /\ grp_pc' = "out"
    /\ grp_out' = GroupByReference(grp_shape, grp_label, RowIds(Len(grp_label)), grp_ref)
    /\ UNCHANGED <<grp_shape, grp_label, grp_ref>>
    /\ UNCHANGED <<UpdVars, RunVars, AnaVars>>

NextGroup == ApplyGroup

SpecGroup == InitGroup /\ [][NextGroup]_vars

\* The groups partition the particles by view: one group per distinct view
\* number, each particle in exactly the group of its view, original order
\* kept, j-th label belonging to the j-th alignment row.
StrictlyIncreasing(s) == \A i, j \in 1..Len(s) : i < j => s[i] < s[j]

GroupIsPartition(label, ref, grp) ==
    /\ {grp[g].view : g \in 1..Len(grp)} = {ref[i] : i \in 1..Len(ref)}
    /\ \A g, h \in 1..Len(grp) : grp[g].view = grp[h].view => g = h
    /\ \A g \in 1..Len(grp) :
          /\ Len(grp[g].label) = Len(grp[g].align)
          /\ StrictlyIncreasing(grp[g].align)
          /\ {grp[g].align[j] : j \in 1..Len(grp[g].align)}
                = {i \in 1..Len(ref) : ref[i] = grp[g].view}
          /\ \A j \in 1..Len(grp[g].label) : grp[g].label[j] = label[grp[g].align[j]]

\* C5 (as stated): group_by_reference returns a partition of the particles
\* by view, for every label shape and every view size.
C5_GroupByReferencePartitions ==
    grp_pc = "out" =>
        /\ ~grp_out.raised
        /\ GroupIsPartition(grp_label, grp_ref, grp_out.group)

\* What holds of group_by_reference whenever it returns.
GroupPartitionsWhenReturned ==
    (grp_pc = "out" /\ ~grp_out.raised) =>
        GroupIsPartition(grp_label, grp_ref, grp_out.group)

----
\* ---- Specification SpecRun: one run of the program, from init_root to the
\* end of finalize.
NViews == 2
RejectPrefix == 1
MinViewCount == 20

Views == 1..NViews
ViewSizes == (MinViewCount - 1)..(MinViewCount + 1)
Layouts == {"alternate", "first"}

RECURSIVE SumTo(_, _)
SumTo(c, n) == IF n = 0 THEN 0 ELSE c[n] + SumTo(c, n - 1)

\* The alignment file: the particles of view 1, then those of view 2, ...
\* Every particle has its own (micrograph, slice index) label.
\* Layout "alternate" deals the particles to the micrographs in turn; layout
\* "first" puts the first particle of every view on the last micrograph and
\* all the others on micrograph 1.
LabelAt(lay, v, j, off) ==
    IF lay = "alternate"
    THEN ParticleLabel(off + j)
    ELSE IF j = 1 THEN [mic |-> Cardinality(Mics), idx |-> v - 1]
         ELSE [mic |-> 1, idx |-> off + j - 1 - v]

ViewOfRow(c, g) == CHOOSE v \in 1..Len(c) : SumTo(c, v - 1) < g /\ g <= SumTo(c, v)

AlignmentLabels(c, lay) ==
    [g \in 1..SumTo(c, Len(c)) |->
        LabelAt(lay, ViewOfRow(c, g), g - SumTo(c, ViewOfRow(c, g) - 1),
                SumTo(c, ViewOfRow(c, g) - 1))]

AlignmentRefs(c) == [g \in 1..SumTo(c, Len(c)) |-> ViewOfRow(c, g)]

\* init_root, lines 624-635: the views in decreasing order of their particle
\* count (index[::-1] of a stable argsort), those with count > 20 only.
KeepViewAtLeast(count) == count >= MinViewCount

KeepView(count) == count > MinViewCount

RECURSIVE ArgsortReversed(_, _)
ArgsortReversed(grp, S) ==
    IF S = {} THEN <<>>
    ELSE LET m == CHOOSE i \in S : \A j \in S :
                     \/ Len(grp[i].label) > Len(grp[j].label)
                     \/ (Len(grp[i].label) = Len(grp[j].label) /\ i >= j)
         IN  <<m>> \o ArgsortReversed(grp, S \ {m})

FilterByCount(grp) ==
    LET order == ArgsortReversed(grp, 1..Len(grp))
        kept == SelectSeq(order, LAMBDA i : KeepView(Len(grp[i].label)))
    IN  [j \in 1..Len(kept) |-> grp[kept[j]]]

\* What init_root returns: [raised, error, group].
InitRootResult(shape, sv, c, lay) ==
    LET label == AlignmentLabels(c, lay)
        g == GroupByReference(shape, label, RowIds(Len(label)), AlignmentRefs(c))
    IN  IF g.raised
        THEN [raised |-> TRUE, error |-> "group_by_reference TypeError", group |-> <<>>]
        ELSE IF sv > 0
        THEN IF sv > Len(g.group)
             THEN [raised |-> TRUE, error |-> "init_root IndexError", group |-> <<>>]
             ELSE [raised |-> FALSE, error |-> "none", group |-> <<g.group[sv]>>]
        ELSE [raised |-> FALSE, error |-> "none", group |-> FilterByCount(g.group)]

Msg(text, args) == [text |-> text, args |-> args]

\* The decisions one_class_classification can return for n particles: the
\* particles at the first RejectPrefix positions are accepted or rejected,
\* the others are accepted.
Masks(n) ==
    {[i \in 1..n |-> i \notin R] : R \in SUBSET {i \in 1..n : i <= RejectPrefix}}

GroupViews(grp) == {grp[g].view : g \in 1..Len(grp)}
GroupOf(grp, v) == grp[CHOOSE g \in 1..Len(grp) : grp[g].view = v]

\* Subsequences of the group, by the set of views kept.
SubGroup(grp, S) == SelectSeq(grp, LAMBDA e : e.view \in S)

InitRun ==
    /\ pc = "init_root"
    /\ label_shape \in Shapes
    /\ single_view \in 0..(NViews + 1)
    /\ layout \in Layouts
    /\ counts \in [Views -> ViewSizes]
    /\ group = <<>>
    /\ finished = <<>>
    /\ unreadable = {}
    /\ todo = {}
    /\ inflight = {}
    /\ processed = {}
    /\ sel_by_mic = EmptyReg
    /\ artifact = <<>>
    /\ merged = <<>>
    /\ fin_i = 0
    /\ records = <<>>
    /\ log = {}
    /\ failure = "none"
    /\ UpdIdle
    /\ GrpIdle
    /\ AnaIdle

\* init_root(files, param)
InitRoot ==
    /\ pc = "init_root"
    /\ LET r == InitRootResult(label_shape, single_view, counts, layout)
       IN  IF r.raised
           THEN /\ pc' = "failed"
                /\ failure' = r.error
                /\ UNCHANGED <<group, log>>
           ELSE /\ pc' = "setup"
                /\ group' = r.group
                /\ log' = log \cup
                     {Msg("Processing %d groups - after removing views with less than 20 particles",
                          <<Len(r.group)>>)}
                /\ UNCHANGED failure
    /\ sel_by_mic' = EmptyReg
    /\ UNCHANGED <<label_shape, single_view, layout, counts, finished, unreadable, todo,
                   inflight, processed, artifact, merged, fin_i, records>>
    /\ UNCHANGED <<UpdVars, GrpVars, AnaVars>>

\* The driver sorts the views init_root returned into those whose output
\* an earlier run left behind (finished) and those still to be processed.
CheckFinished ==
    /\ pc = "setup"
    /\ \E F \in SUBSET GroupViews(group) :
         /\ finished' = SubGroup(group, F)
         /\ todo' = GroupViews(group) \ F
         /\ \E U \in SUBSET F : unreadable' = U
         /\ \E prior \in [F -> BOOLEAN] :
              artifact' = [v \in F |->
                  [i \in 1..Len(GroupOf(group, v).label) |-> prior[v] \/ i > 1]]
    /\ pc' = "map"
    /\ UNCHANGED <<label_shape, single_view, layout, counts, group, inflight, processed,
                   sel_by_mic, merged, fin_i, records, log, failure>>
    /\ UNCHANGED <<UpdVars, GrpVars, AnaVars>>

\* process(input_vals, output): feat is None when the view is skipped, and
\* then nothing is written and rsel is None.
Process(v) ==
    /\ pc = "map"
    /\ v \in todo
    /\ todo' = todo \ {v}
    /\ processed' = processed \cup {v}
    /\ LET input == GroupOf(group, v)
       IN  \/ /\ inflight' = inflight \cup {[input |-> input, rsel |-> None]}
              /\ log' = log \cup {Msg("Skipping view (too few projections): %d", <<v>>)}
              /\ UNCHANGED artifact
           \/ \E sel \in Masks(Len(input.label)) :
                 /\ inflight' = inflight \cup
                        {[input |-> input, rsel |-> Decision(GroupDecision(sel))]}
                 /\ artifact' = (v :> sel) @@ artifact
                 /\ log' = log \cup {Msg("Finished embedding view: %d", <<v>>)}
    /\ UNCHANGED <<pc, label_shape, single_view, layout, counts, group, finished, unreadable,
                   sel_by_mic, merged, fin_i, records, failure>>
    /\ UNCHANGED <<UpdVars, GrpVars, AnaVars>>

\* reduce_all(val, sel_by_mic) in the root process, for a result of process;
\* the driver reports the string it returns.
Reduce(val) ==
    /\ pc = "map"
    /\ val \in inflight
    /\ inflight' = inflight \ {val}
    /\ LET r == ReduceAll(val, sel_by_mic, label_shape)
       IN  /\ sel_by_mic' = r.reg
           /\ IF r.raised
              THEN /\ pc' = "failed"
                   /\ failure' = "reduce_all TypeError"
                   /\ UNCHANGED <<log, merged>>
              ELSE /\ log' = log \cup {Msg("%d - Selected: %d -- Removed %d",
                                           <<r.msg.view, r.msg.selected, r.msg.removed>>)}
                   /\ merged' = (val.input.view :> val.rsel.sel) @@ merged
                   /\ UNCHANGED <<pc, failure>>
    /\ UNCHANGED <<label_shape, single_view, layout, counts, group, finished, unreadable,
                   todo, processed, artifact, fin_i, records>>
    /\ UNCHANGED <<UpdVars, GrpVars, AnaVars>>

\* The driver calls finalize once every result has been reduced.
CallFinalize ==
    /\ pc = "map"
    /\ todo = {}
    /\ inflight = {}
    /\ pc' = "finalize"
    /\ fin_i' = 0
    /\ UNCHANGED <<label_shape, single_view, layout, counts, group, finished, unreadable,
                   todo, inflight, processed, sel_by_mic, artifact, merged, records, log,
                   failure>>
    /\ UNCHANGED <<UpdVars, GrpVars, AnaVars>>

\* finalize, lines 719-729: one iteration of the loop over finished.  The
\* artifact is read (an unreadable one raises), classified again, written
\* back with the new select column and merged into the registry.
FinalizeMerge ==
    /\ pc = "finalize"
    /\ fin_i < Len(finished)
    /\ LET filename == finished[fin_i + 1]
           v == filename.view
           label == filename.label
       IN  IF v \in unreadable
           THEN /\ pc' = "failed"
                /\ failure' = "finalize read error"
                /\ UNCHANGED <<sel_by_mic, artifact, merged, fin_i, log>>
           ELSE \E sel \in Masks(Len(label)) :
                  /\ artifact' = [artifact EXCEPT ![v] = sel]
                  /\ sel_by_mic' = UpdateSelectionDict(sel_by_mic, label_shape, label,
                                                        Decision(GroupDecision(sel)))
                  /\ merged' = (v :> GroupDecision(sel)) @@ merged
                  /\ fin_i' = fin_i + 1
                  /\ log' = log \cup
                       {Msg("Read %d samples and selected %d from finished view: %d",
                            <<Len(label), NumpySum(sel), v>>)}
                  /\ UNCHANGED <<pc, failure>>
    /\ UNCHANGED <<label_shape, single_view, layout, counts, group, finished, unreadable,
                   todo, inflight, processed, records>>
    /\ UNCHANGED <<UpdVars, GrpVars, AnaVars>>

\* "%d" % id needs a number: the keys of sel_by_mic are int(label[i, 0]) for
\* the tuple shape and the filename label[i][0] for the list shape.
KeyIsNumber(shape) == shape = "tuple"

WrittenIds == {records[j].spiderid : j \in 1..Len(records)}

\* finalize, lines 731-736: one iteration of the loop over the registry, in
\* the order the dictionary yields its keys.
FinalizeWrite ==
    /\ pc = "finalize"
    /\ fin_i = Len(finished)
    /\ \E id \in DOMAIN sel_by_mic \ WrittenIds :
         LET sel == sel_by_mic[id]
             n == Len(sel)
         IN  IF ~KeyIsNumber(label_shape)
             THEN /\ pc' = "failed"
                  /\ failure' = "finalize TypeError"
                  /\ UNCHANGED <<records, log>>
             ELSE /\ records' = Append(records,
                        [spiderid |-> id, rows |-> [j \in 1..n |-> <<sel[j], 1>>]])
                  /\ log' = log \cup {Msg("Writing %d to selection file %d", <<n, id>>)}
                  /\ UNCHANGED <<pc, failure>>
    /\ UNCHANGED <<label_shape, single_view, layout, counts, group, finished, unreadable,
                   todo, inflight, processed, sel_by_mic, artifact, merged, fin_i>>
    /\ UNCHANGED <<UpdVars, GrpVars, AnaVars>>

RECURSIVE TotalRows(_)
TotalRows(recs) == IF recs = <<>> THEN 0 ELSE Len(Head(recs).rows) + TotalRows(Tail(recs))

\* finalize, lines 737-738: the closing messages.
FinalizeEnd ==
    /\ pc = "finalize"
    /\ fin_i = Len(finished)
    /\ DOMAIN sel_by_mic \ WrittenIds = {}
    /\ log' = log \cup {Msg("Selected %d projections", <<TotalRows(records)>>),
                        Msg("Completed", <<>>)}
    /\ pc' = "done"
    /\ UNCHANGED <<label_shape, single_view, layout, counts, group, finished, unreadable,
                   todo, inflight, processed, sel_by_mic, artifact, merged, fin_i, records,
                   failure>>
    /\ UNCHANGED <<UpdVars, GrpVars, AnaVars>>

NextRun ==
    \/ InitRoot
    \/ CheckFinished
    \/ \E v \in Views : Process(v)
    \/ \E val \in inflight : Reduce(val)
    \/ CallFinalize
    \/ FinalizeMerge
    \/ FinalizeWrite
    \/ FinalizeEnd

SpecRun == InitRun /\ [][NextRun]_vars

----
\* Properties of a run.

InitRootReturned == pc \notin {"idle", "init_root"} /\ failure \notin
    {"group_by_reference TypeError", "init_root IndexError"}

\* finalize went through all of finished (the merge loop is over).
MergeLoopOver ==
    \/ pc \in {"finalize", "done"} /\ fin_i = Len(finished)
    \/ pc = "failed" /\ failure = "finalize TypeError"

\* finalize is over, by return or by exception.
FinalizeOver ==
    \/ pc = "done"
    \/ pc = "failed" /\ failure \in {"finalize TypeError", "finalize read error"}

\* The indices (slice index + 1) of the particles of micrograph k that the
\* merged decisions accept, over all the views of the group.
AcceptedIndices(k) ==
    UNION {{GroupOf(group, v).label[i].idx + 1 :
               i \in {j \in 1..Len(merged[v]) :
                         merged[v][j] /\ GroupOf(group, v).label[j].mic = k}} :
           v \in DOMAIN merged}

SeqSet(q) == {q[j] : j \in 1..Len(q)}

\* C3: once finalize has merged the finished views, every view of the group
\* has been merged exactly one way, every accepted particle is in the
\* registry exactly once (no index twice in a list, nothing else in it), and
\* no finished view was handed to process.
C3_EachAcceptedParticleOnce ==
    MergeLoopOver =>
        /\ DOMAIN merged = GroupViews(group)
        /\ processed \cap GroupViews(finished) = {}
        /\ processed \cup GroupViews(finished) = GroupViews(group)
        /\ DOMAIN sel_by_mic \subseteq Mics
        /\ \A k \in Mics :
              /\ NoDuplicates(ListOf(sel_by_mic, k))
              /\ SeqSet(ListOf(sel_by_mic, k)) = AcceptedIndices(k)

C3_Witness ==
    /\ pc = "done"
    /\ finished # <<>>
    /\ processed # {}
    /\ \E v \in GroupViews(finished) : \E i \in 1..Len(merged[v]) : ~merged[v][i]
    /\ \E v \in processed : \E i \in 1..Len(merged[v]) : ~merged[v][i]
    /\ \A k \in Mics : k \in DOMAIN sel_by_mic

\* C6 (as stated): without single_view, init_root keeps a view if and only
\* if it has at least 20 particles.
C6_KeepsViewsOfAtLeast20 ==
    (InitRootReturned /\ single_view <= 0) =>
        \A v \in Views : v \in GroupViews(group) <=> counts[v] >= MinViewCount

\* What init_root does: it keeps the views of more than 20 particles.
KeepsViewsOfMoreThan20 ==
    (InitRootReturned /\ single_view <= 0) =>
        \A v \in Views : v \in GroupViews(group) <=> counts[v] > MinViewCount

\* C7 (as stated): reducing the result of a skipped view does not fail.
SkippedReduced ==
    {v \in processed :
        /\ Msg("Skipping view (too few projections): %d", <<v>>) \in log
        /\ \A val \in inflight : val.input.view # v}

C7_SkippedViewDoesNotFail ==
    SkippedReduced # {} => failure # "reduce_all TypeError"

\* reduce_all leaves the registry as it is for a skipped view.
SkippedViewLeavesRegistry ==
    [][\A val \in inflight : (val.rsel.none /\ Reduce(val)) => sel_by_mic' = sel_by_mic]_vars

\* The selection record of micrograph id: its indices in registry order,
\* each with the select flag 1.
RecordOf(id) ==
    [spiderid |-> id, rows |-> [j \in 1..Len(sel_by_mic[id]) |-> <<sel_by_mic[id][j], 1>>]]

ExactlyOneRecordPerKey ==
    /\ WrittenIds = DOMAIN sel_by_mic
    /\ Len(records) = Cardinality(DOMAIN sel_by_mic)
    /\ \A j \in 1..Len(records) : records[j] = RecordOf(records[j].spiderid)

\* C8 (as stated): when finalize is over, having merged all finished views,
\* exactly one selection record is written for each key of sel_by_mic.
C8_OneRecordPerMicrograph ==
    (FinalizeOver /\ fin_i = Len(finished)) => ExactlyOneRecordPerKey

\* What holds when finalize returns.
RecordsWhenDone == pc = "done" => ExactlyOneRecordPerKey

\* C9 (as stated): when the artifact of one finished view cannot be read,
\* the other finished views are still merged and the records still written.
C9_ReadFailureAbortsOneViewOnly ==
    (pc = "failed" /\ failure = "finalize read error") =>
        /\ GroupViews(finished) \ unreadable \subseteq DOMAIN merged
        /\ ExactlyOneRecordPerKey

\* C10 (as stated): every run that got its views ends with a summary: the
\* count of selected particles, and for every view either its selected and
\* removed counts or the report that it was skipped.
RunOver == pc \in {"done", "failed"} /\ InitRootReturned

ViewReported(v) ==
    \/ Msg("Skipping view (too few projections): %d", <<v>>) \in log
    \/ \E m \in log : m.text = "%d - Selected: %d -- Removed %d" /\ m.args[1] = v
    \/ \E m \in log : /\ m.text = "Read %d samples and selected %d from finished view: %d"
                      /\ m.args[3] = v

C10_SummaryAtEndOfRun ==
    RunOver =>
        /\ \E m \in log : m.text = "Selected %d projections"
        /\ \A v \in GroupViews(group) : ViewReported(v)

\* What holds when finalize returns.
SummaryWhenDone ==
    pc = "done" =>
        /\ \E m \in log : m.text = "Selected %d projections"
        /\ \A v \in GroupViews(group) : ViewReported(v)

----
\* ---- Specification SpecClassify: diffclean.one_class_classification on
\* drawn inputs.  The covariance estimators (MinCovDet, EmpiricalCovariance)
\* and the chi-squared quantile are library code: a fit is modelled by
\* whether it succeeds on feat, the Mahalanobis distance of the fitted
\* estimator is a drawn vector, and the quantile is tabulated.

\* Bounds of the drawn inputs: number of samples (rows of feat) and number
\* of columns of feat.
NSamples == 2
MaxFeat == 2

\* The values of prob_reject that are drawn, in percent; 0.97 is the
\* default of the option.
ProbGrid == <<50, 90, 95, 97, 99>>

\* chi2.ppf(prob_reject, k) in thousandths: row k (degrees of freedom),
\* column the index of prob_reject in ProbGrid.
Chi2Table ==
    << <<  455, 2706,  3841,  4709,  6635 >>,
       << 1386, 4605,  5991,  7013,  9210 >>,
       << 2366, 6251,  7815,  8947, 11345 >>,
       << 3357, 7779,  9488, 10712, 13277 >>,
       << 4351, 9236, 11070, 12375, 15086 >> >>

\* The survival quantile chi2.isf in place of chi2.ppf.
Chi2Isf(p, k) == Chi2Table[k][Len(ProbGrid) + 1 - p]

Chi2Ppf(p, k) == Chi2Table[k][p]

\* Distances in thousandths, some of them equal to a cutoff.
DistValues == {0, 3000, 4709, 6000, 8000}

\* What the fits do on feat: both succeed, only the robust one fails (for
\* example a singular covariance), or both fail (for example feat holds a
\* NaN, or has no row).
FitConds == {"regular", "robust_fails", "both_fail"}

MinCovDetFit(cond) ==
    [raised |-> cond # "regular", estimator |-> "MinCovDet"]

EmpiricalCovarianceFit(cond) ==
    [raised |-> cond = "both_fail", estimator |-> "EmpiricalCovariance"]

\* try: MinCovDet().fit(feat)  except: EmpiricalCovariance().fit(feat).
\* The call inside the handler is not guarded.
FitCovariance(cond) ==
    LET robust == MinCovDetFit(cond)
    IN  IF ~robust.raised THEN robust ELSE EmpiricalCovarianceFit(cond)

NoClassification ==
    [raised |-> TRUE, estimator |-> "none", sel |-> <<>>, rsel |-> <<>>,
     dist |-> <<>>]

OneClassClassification(cond, dist, ncols, neig, p) ==
    LET k == IF neig < ncols THEN neig ELSE ncols
        robust_cov == FitCovariance(cond)
        cut == Chi2Ppf(p, k)
        sel == [i \in 1..Len(dist) |-> dist[i] < cut]
    IN  IF robust_cov.raised
        THEN NoClassification
        ELSE [raised |-> FALSE, estimator |-> robust_cov.estimator,
              sel |-> sel, rsel |-> GroupDecision(sel), dist |-> dist]

InitClassify ==
    /\ occ_pc = "in"
    /\ occ_cond \in FitConds
    /\ occ_ncols \in 1..MaxFeat
    /\ occ_neig \in 1..(MaxFeat + 1)
    /\ occ_dist \in SeqsOfLen(DistValues, NSamples)
    /\ occ_p \in (1..Len(ProbGrid)) \X (1..Len(ProbGrid))
    /\ occ_out = <<>>
    /\ UpdIdle
    /\ GrpIdle
    /\ RunIdle
    /\ PcaIdle
    /\ OcsIdle
    /\ ToolIdle

\* The call with the first and with the second value of prob_reject, on the
\* same feat and neig.
ApplyClassify ==
    /\ occ_pc = "in"
    /\ occ_pc' = "out"
    /\ occ_out' =
         << OneClassClassification(occ_cond, occ_dist, occ_ncols, occ_neig, occ_p[1]),
            OneClassClassification(occ_cond, occ_dist, occ_ncols, occ_neig, occ_p[2]) >>
    /\ UNCHANGED <<occ_cond, occ_ncols, occ_neig, occ_dist, occ_p>>
    /\ UNCHANGED <<UpdVars, GrpVars, RunVars, PcaVars, OcsVars, ToolVars>>

NextClassify == ApplyClassify

SpecClassify == InitClassify /\ [][NextClassify]_vars

\* C11: whenever the robust fit fails, one_class_classification returns
\* (sel, rsel, dist) without raising, also when the fallback fit fails.
C11_FallbackNeverRaises ==
    (occ_pc = "out" /\ occ_cond # "regular") => ~occ_out[1].raised

\* C12: for the same distances and neig, a sample accepted at prob_reject
\* p1 is accepted at every p2 >= p1.
C12_MonotoneInProbReject ==
    (/\ occ_pc = "out"
     /\ ~occ_out[1].raised
     /\ ProbGrid[occ_p[1]] <= ProbGrid[occ_p[2]])
    => \A i \in 1..NSamples : occ_out[1].sel[i] => occ_out[2].sel[i]

C12_Witness ==
    /\ occ_pc = "out"
    /\ ~occ_out[1].raised
    /\ ProbGrid[occ_p[1]] < ProbGrid[occ_p[2]]
    /\ \E i \in 1..NSamples : occ_out[1].sel[i] /\ occ_out[2].sel[i]
    /\ \E i \in 1..NSamples : ~occ_out[1].sel[i] /\ occ_out[2].sel[i]

----
\* ---- Specification SpecPca: analysis.pca and analysis._assess_dimension
\* on drawn inputs.  The singular value decomposition is library code: pca
\* is modelled from the normalised variance spectrum t on (one value for
\* each of the min(rows, cols) singular values, descending, summing to 1),
\* and the results are modelled by their shapes.  Fractions are counted in
\* units of 1/Unit.  The score ll of a candidate rank is a sum of logarithms
\* and is a drawn value: a finite integer or a non-finite value.

\* Bounds of the drawn inputs: rows and columns of trn, the resolution of
\* the fractions, and the largest absolute score.
MaxDim == 3
Unit == 4
MaxScore == 2

Smaller(a, b) == IF a < b THEN a ELSE b

RECURSIVE PrefixSum(_, _)
PrefixSum(v, i) == IF i = 0 THEN 0 ELSE PrefixSum(v, i - 1) + v[i]

\* frac in units of 1/Unit: negative, zero, fractions below 1, and counts
\* up to MaxDim + 1 (whole or not).
FracValues == {-Unit, -1} \cup (0..((MaxDim + 1) * Unit))

\* t = d**2/rows; t /= t.sum(): descending, sums to 1, and has at most
\* rows - 1 positive entries because trn is centred.  When all rows of trn
\* are equal d is zero and t is 0/0 = nan.
NanSpectrum(len_d) == [nan |-> TRUE, v |-> [i \in 1..len_d |-> 0]]

FiniteSpectra(rows, len_d) ==
    { [nan |-> FALSE, v |-> v] : v \in
        { w \in SeqsOfLen(0..Unit, len_d) :
            /\ \A i \in 1..(len_d - 1) : w[i] >= w[i + 1]
            /\ PrefixSum(w, len_d) = Unit
            /\ Cardinality({i \in 1..len_d : w[i] > 0}) <= rows - 1 } }

Spectra(rows, cols) ==
    FiniteSpectra(rows, Smaller(rows, cols)) \cup {NanSpectrum(Smaller(rows, cols))}

\* The spectrum of a direct call of _assess_dimension need not be
\* normalised; only its scores are drawn.
NoSpectrum == [nan |-> FALSE, v |-> <<>>]

NonFinite == [finite |-> FALSE, v |-> 0]
ScoreValues == {NonFinite} \cup {[finite |-> TRUE, v |-> x] : x \in (-MaxScore)..MaxScore}

\* Scores of the candidate ranks 0..len-1 of the spectrum pca passes.  A nan
\* spectrum gives nan scores.  For a normalised spectrum the score of rank 0
\* is log(2 pi)/2 + rows*cols*log(cols)/2, finite and positive.
PcaScores(t) ==
    IF t.nan
    THEN {[i \in 1..Len(t.v) |-> NonFinite]}
    ELSE { ll \in SeqsOfLen(ScoreValues, Len(t.v)) : ll[1].finite /\ ll[1].v > 0 }

\* max_ll = (0, 0); for rank in xrange(len(spectrum)): ... if
\* numpy.isfinite(ll) and ll > max_ll[0]: max_ll = (ll, rank)
RECURSIVE AssessLoop(_, _, _)
AssessLoop(ll, rank, max_ll) ==
    IF rank >= Len(ll)
    THEN max_ll
    ELSE AssessLoop(ll, rank + 1,
                    IF ll[rank + 1].finite /\ ll[rank + 1].v > max_ll[1]
                    THEN <<ll[rank + 1].v, rank>>
                    ELSE max_ll)

AssessDimension(ll) == AssessLoop(ll, 0, <<0, 0>>)[2]

\* numpy.sum(t.cumsum() < frac): a comparison with nan is False.
CountBelow(t, frac) ==
    IF t.nan THEN 0
    ELSE Cardinality({i \in 1..Len(t.v) : PrefixSum(t.v, i) < frac})

\* The rank the four modes of frac select, before the clamp.
SelectIdx(frac, t, ll) ==
    IF frac >= Unit THEN frac \div Unit
    ELSE IF frac = 0 THEN AssessDimension(ll) + 1
    ELSE IF frac > 0 THEN CountBelow(t, frac) + 1
    ELSE Len(t.v)

\* if idx >= len(d): idx = 1
ClampIdx(idx, len_d) == IF idx >= len_d THEN 1 ELSE idx

\* pca returns val, idx, V[:idx], t[idx]; t[idx] raises IndexError when idx
\* is not below len(t).  val has as many columns and V[:idx] as many rows
\* as the slice [:idx] of len(d) values leaves.
Pca(frac, t, ll) ==
    LET len_d == Len(t.v)
        idx == ClampIdx(SelectIdx(frac, t, ll), len_d)
    IN  IF idx >= len_d
        THEN [raised |-> TRUE, exception |-> "IndexError", idx |-> idx,
              val_cols |-> 0, V_rows |-> 0, rank |-> 0]
        ELSE [raised |-> FALSE, exception |-> "none", idx |-> idx,
              val_cols |-> Smaller(idx, len_d), V_rows |-> Smaller(idx, len_d),
              rank |-> 0]

InitPca ==
    /\ pca_pc = "in"
    /\ pca_call \in {"pca", "_assess_dimension"}
    /\ \/ /\ pca_call = "pca"
          /\ pca_rows \in 1..MaxDim
          /\ pca_cols \in 1..MaxDim
          /\ pca_frac \in FracValues
          /\ pca_t \in Spectra(pca_rows, pca_cols)
          /\ pca_ll \in IF pca_frac = 0 THEN PcaScores(pca_t) ELSE {<<>>}
       \/ /\ pca_call = "_assess_dimension"
          /\ pca_rows \in 1..MaxDim
          /\ pca_cols = pca_rows
          /\ pca_frac = 0
          /\ pca_t = NoSpectrum
          /\ pca_ll \in SeqsOfLen(ScoreValues, pca_rows)
    /\ pca_out = [raised |-> FALSE]
    /\ UpdIdle
    /\ GrpIdle
    /\ RunIdle
    /\ OccIdle
    /\ OcsIdle
    /\ ToolIdle

ApplyPca ==
    /\ pca_pc = "in"
    /\ pca_call = "pca"
    /\ pca_pc' = "out"
    /\ pca_out' = Pca(pca_frac, pca_t, pca_ll)
    /\ UNCHANGED <<pca_call, pca_rows, pca_cols, pca_frac, pca_t, pca_ll>>
    /\ UNCHANGED <<UpdVars, GrpVars, RunVars, OccVars, OcsVars, ToolVars>>

ApplyAssess ==
    /\ pca_pc = "in"
    /\ pca_call = "_assess_dimension"
    /\ pca_pc' = "out"
    /\ pca_out' = [raised |-> FALSE, exception |-> "none", idx |-> 0,
                   val_cols |-> 0, V_rows |-> 0,
                   rank |-> AssessDimension(pca_ll)]
    /\ UNCHANGED <<pca_call, pca_rows, pca_cols, pca_frac, pca_t, pca_ll>>
    /\ UNCHANGED <<UpdVars, GrpVars, RunVars, OccVars, OcsVars, ToolVars>>

NextPca == ApplyPca \/ ApplyAssess

SpecPca == InitPca /\ [][NextPca]_vars

PcaReturned == pca_pc = "out" /\ pca_call = "pca"
LenD == Smaller(pca_rows, pca_cols)

\* C13: pca returns without error, 1 <= idx <= min(rows, cols), the basis
\* has idx rows and the projection idx columns, for every frac and every
\* training matrix, one column included.
C13_PcaReturnsConsistentRank ==
    PcaReturned =>
        /\ ~pca_out.raised
        /\ 1 <= pca_out.idx /\ pca_out.idx <= LenD
        /\ pca_out.V_rows = pca_out.idx
        /\ pca_out.val_cols = pca_out.idx

\* C14: pca with frac < 0 selects the full rank, idx = min(rows, cols).
C14_NegativeFracSelectsFullRank ==
    (PcaReturned /\ pca_frac < 0) => (~pca_out.raised /\ pca_out.idx = LenD)

\* C15: pca with a whole count c = frac, 1 <= c <= min(rows, cols), selects
\* exactly c components.
C15_CountSelectsExactly ==
    (/\ PcaReturned
     /\ pca_frac >= Unit
     /\ pca_frac % Unit = 0
     /\ pca_frac \div Unit <= LenD)
    => (~pca_out.raised /\ pca_out.idx = pca_frac \div Unit)

\* The smallest rank whose leading normalised variances sum to at least frac.
SmallestRank(t, frac) ==
    CHOOSE r \in 1..Len(t.v) :
        /\ PrefixSum(t.v, r) >= frac
        /\ \A q \in 1..(r - 1) : PrefixSum(t.v, q) < frac

\* C16: pca with frac in (0, 1) selects the smallest rank whose leading
\* normalised variances sum to at least frac, the full length included.
C16_FractionSelectsSmallestRank ==
    (PcaReturned /\ pca_frac > 0 /\ pca_frac < Unit /\ ~pca_t.nan)
    => (~pca_out.raised /\ pca_out.idx = SmallestRank(pca_t, pca_frac))

FiniteRanks == {r \in 0..(Len(pca_ll) - 1) : pca_ll[r + 1].finite}

\* C17: _assess_dimension returns a candidate rank whose score is the
\* largest of the finite scores, whatever their sign.
C17_MaximalFiniteScore ==
    (pca_pc = "out" /\ pca_call = "_assess_dimension" /\ FiniteRanks # {})
    => /\ pca_out.rank \in FiniteRanks
       /\ \A r \in FiniteRanks : pca_ll[r + 1].v <= pca_ll[pca_out.rank + 1].v

\* C18: when no candidate has a finite score the automatic selection falls
\* back to rank 1 and pca returns idx = 1; a candidate with a non-finite
\* score is never the selected one when a finite score exists.
C18_FallbackToRankOne ==
    /\ (PcaReturned /\ pca_frac = 0 /\ FiniteRanks = {})
       => (~pca_out.raised /\ pca_out.idx = 1)
    /\ (pca_pc = "out" /\ pca_call = "_assess_dimension")
       => IF FiniteRanks = {} THEN pca_out.rank = 0
          ELSE pca_out.rank \in FiniteRanks

----
\* ---- Specification SpecSelect: analysis.one_class_selection,
\* one_class_distance and one_class_classification on drawn inputs.  The
\* data are integers, the median is kept doubled (2*m, so that the mean of
\* the two middle values stays an integer) and the standard deviation by
\* n*n*var = n*sum(x*x) - sum(x)**2, so that every comparison of the code is
\* made exactly.

\* Bounds of the drawn inputs: the largest data value, the largest number
\* of data and the largest nstd_min.
MaxVal == 4
MaxData == 5
MaxNstdMin == 2

\* int(min(10, ...)) in one_class_selection and the nstd_min of the last
\* selection of one_class_classification.
StartCap == 10
DistNstdMin == 4

Abs(x) == IF x < 0 THEN -x ELSE x
Larger(a, b) == IF a > b THEN a ELSE b

AllTrue(n) == [i \in 1..n |-> TRUE]
CountTrue(sel) == Cardinality({i \in 1..Len(sel) : sel[i]})

\* Sum of data[i]**pow over the selected i <= n.
RECURSIVE MaskedSum(_, _, _, _)
MaskedSum(data, sel, n, pow) ==
    IF n = 0 THEN 0
    ELSE MaskedSum(data, sel, n - 1, pow)
         + (IF sel[n] THEN (IF pow = 2 THEN data[n] * data[n] ELSE data[n]) ELSE 0)

\* The k-th smallest of the selected values.
KthSmallest(data, sel, k) ==
    LET I == {i \in 1..Len(data) : sel[i]}
    IN  CHOOSE v \in {data[i] : i \in I} :
            /\ Cardinality({i \in I : data[i] <= v}) >= k
            /\ Cardinality({i \in I : data[i] < v}) < k

\* 2 * numpy.median(data[sel]), for a selection that is not empty.
Median2(data, sel) ==
    LET n == CountTrue(sel)
    IN  IF n % 2 = 1
        THEN 2 * KthSmallest(data, sel, (n + 1) \div 2)
        ELSE KthSmallest(data, sel, n \div 2) + KthSmallest(data, sel, n \div 2 + 1)

\* n*n * numpy.std(data[sel])**2
VarN2(data, sel) ==
    CountTrue(sel) * MaskedSum(data, sel, Len(data), 2)
    - MaskedSum(data, sel, Len(data), 1) * MaskedSum(data, sel, Len(data), 1)

\* start = int(min(10, max((maxval-m)/s, (m-minval)/s))) over all the data:
\* the largest k <= 10 with k*s <= max(maxval-m, m-minval).  When s = 0 all
\* data are equal, the quotients are 0/0 = nan and min(10, nan) is 10.
Start(data) ==
    LET all == AllTrue(Len(data))
        n == Len(data)
        m2 == Median2(data, all)
        v == VarN2(data, all)
        maxval == CHOOSE x \in {data[i] : i \in 1..n} : \A i \in 1..n : data[i] <= x
        minval == CHOOSE x \in {data[i] : i \in 1..n} : \A i \in 1..n : data[i] >= x
        d2 == Larger(2 * maxval - m2, m2 - 2 * minval)
    IN  IF v = 0 THEN StartCap
        ELSE CHOOSE k \in 0..StartCap :
                 /\ 4 * k * k * v <= n * n * d2 * d2
                 /\ (k < StartCap => 4 * (k + 1) * (k + 1) * v > n * n * d2 * d2)

\* A pass that keeps the data outside the band instead of those inside.
ReselectOutside(data, sel, nstd) ==
    LET n == CountTrue(sel)
    IN  IF n = 0 \/ nstd < 0
        THEN [i \in 1..Len(data) |-> FALSE]
        ELSE [i \in 1..Len(data) |->
                n * n * (2 * data[i] - Median2(data, sel)) * (2 * data[i] - Median2(data, sel))
                    > 4 * nstd * nstd * VarN2(data, sel)]

\* One pass of the loop: m and s of the selected data, then
\* sel = data < m + s*nstd and data > m - s*nstd over all the data, that is
\* |data - m| < s*nstd.  The statistics of an empty selection are nan and
\* every comparison with them is False.
Reselect(data, sel, nstd) ==
    LET n == CountTrue(sel)
    IN  IF n = 0 \/ nstd < 0
        THEN [i \in 1..Len(data) |-> FALSE]
        ELSE LET m2 == Median2(data, sel)
                 v == VarN2(data, sel)
             IN  [i \in 1..Len(data) |->
                    n * n * (2 * data[i] - m2) * (2 * data[i] - m2)
                        < 4 * nstd * nstd * v]

\* An assertion that is never checked.
AssertFiresNever(sel) == FALSE

\* assert(numpy.sum(sel)>0)
AssertFires(sel) == CountTrue(sel) = 0

\* A loop that lowers nstd by two after every pass.
RECURSIVE ClipLoopSkipping(_, _, _, _, _)
ClipLoopSkipping(data, nstd, nstd_min, sel, trace) ==
    IF nstd < nstd_min
    THEN [raised |-> FALSE, sel |-> sel, trace |-> trace]
    ELSE LET new == Reselect(data, sel, nstd)
             tr == Append(trace, [nstd |-> nstd, sel |-> new])
         IN  IF AssertFires(new)
             THEN [raised |-> TRUE, sel |-> <<>>, trace |-> tr]
             ELSE ClipLoopSkipping(data, nstd - 2, nstd_min, new, tr)

\* for nstd in xrange(start, nstd_min-1, -1): ...; trace keeps the selection
\* of every pass.
RECURSIVE ClipLoop(_, _, _, _, _)
ClipLoop(data, nstd, nstd_min, sel, trace) ==
    IF nstd < nstd_min
    THEN [raised |-> FALSE, sel |-> sel, trace |-> trace]
    ELSE LET new == Reselect(data, sel, nstd)
             tr == Append(trace, [nstd |-> nstd, sel |-> new])
         IN  IF AssertFires(new)
             THEN [raised |-> TRUE, sel |-> <<>>, trace |-> tr]
             ELSE ClipLoop(data, nstd - 1, nstd_min, new, tr)

OneClassSelection(data, nstd_min) ==
    ClipLoop(data, Start(data), nstd_min, AllTrue(Len(data)), <<>>)

\* one_class_distance that returns the distances from the median of all the
\* data when the selection fails.
OneClassDistanceCatching(data, nstd_min) ==
    LET m2 == Median2(data, AllTrue(Len(data)))
    IN  [raised |-> FALSE, exception |-> "none",
         dist |-> [i \in 1..Len(data) |-> Abs(2 * data[i] - m2)]]

\* one_class_distance of a two-dimensional data with one column: the
\* distance of every value from the median of the selected ones, doubled
\* here (the selection made from the distances does not change when all of
\* them are doubled).  squeeze() leaves no dimension when there is one row.
OneClassDistance(data, nstd_min) ==
    LET s == OneClassSelection(data, nstd_min)
    IN  IF s.raised
        THEN [raised |-> TRUE, exception |-> "selection", dist |-> <<>>]
        ELSE IF Len(data) = 1
        THEN [raised |-> TRUE, exception |-> "ndim", dist |-> <<>>]
        ELSE LET m2 == Median2(data, s.sel)
             IN  [raised |-> FALSE, exception |-> "none",
                  dist |-> [i \in 1..Len(data) |-> Abs(2 * data[i] - m2)]]

\* analysis.one_class_classification
AnalysisOneClassClassification(data, nstd_min) ==
    LET d == OneClassDistance(data, nstd_min)
    IN  IF d.raised
        THEN [raised |-> TRUE, exception |-> d.exception, sel |-> <<>>, trace |-> <<>>]
        ELSE LET dsel == OneClassSelection(d.dist, DistNstdMin)
             IN  [raised |-> dsel.raised,
                  exception |-> IF dsel.raised THEN "selection" ELSE "none",
                  sel |-> dsel.sel, trace |-> dsel.trace]

DataSeqs == SeqsUpTo(0..MaxVal, MaxData) \ {<<>>}

InitSelect ==
    /\ ocs_pc = "in"
    /\ ocs_data \in DataSeqs
    /\ ocs_nstd_min \in 1..MaxNstdMin
    /\ ocs_out = <<>>
    /\ UpdIdle
    /\ GrpIdle
    /\ RunIdle
    /\ OccIdle
    /\ PcaIdle
    /\ ToolIdle

\* The three calls on the same data: the data as they are for
\* one_class_selection, as the only column of a matrix for the other two.
ApplySelect ==
    /\ ocs_pc = "in"
    /\ ocs_pc' = "out"
    /\ ocs_out' = [selection |-> OneClassSelection(ocs_data, ocs_nstd_min),
                   distance |-> OneClassDistance(ocs_data, ocs_nstd_min),
                   classification |->
                       AnalysisOneClassClassification(ocs_data, ocs_nstd_min)]
    /\ UNCHANGED <<ocs_data, ocs_nstd_min>>
    /\ UNCHANGED <<UpdVars, GrpVars, RunVars, OccVars, PcaVars, ToolVars>>

NextSelect == ApplySelect

SpecSelect == InitSelect /\ [][NextSelect]_vars

DistinctValues == {ocs_data[i] : i \in 1..Len(ocs_data)}
EmptiedAt(trace) == {k \in 1..Len(trace) : CountTrue(trace[k].sel) = 0}

C20_EmptySelectionFailsFast ==
    /\ (ocs_pc = "out" /\ EmptiedAt(ocs_out.selection.trace) # {})
       => (/\ ocs_out.selection.raised
           /\ ocs_out.selection.sel = <<>>
           /\ EmptiedAt(ocs_out.selection.trace) = {Len(ocs_out.selection.trace)}
           /\ ocs_out.distance.raised
           /\ ocs_out.distance.exception = "selection"
           /\ ocs_out.classification.raised
           /\ ocs_out.classification.exception = "selection")
    /\ (ocs_pc = "out" /\ EmptiedAt(ocs_out.classification.trace) # {})
       => (/\ ocs_out.classification.raised
           /\ ocs_out.classification.sel = <<>>
           /\ EmptiedAt(ocs_out.classification.trace)
                = {Len(ocs_out.classification.trace)})

C20_Witness ==
    /\ ocs_pc = "out"
    /\ Cardinality(DistinctValues) >= 3
    /\ Len(ocs_out.selection.trace) >= 2
    /\ EmptiedAt(ocs_out.selection.trace) # {}
    /\ ocs_out.classification.raised

----
\* More properties of one_class_selection.

\* The number of passes when no assertion ends the loop.
FullPasses(start, nstd_min) == IF start < nstd_min THEN 0 ELSE start - nstd_min + 1

----
\* C26: for list-form labels group_by_reference returns for every group
\* size >= 1, and a view number held by exactly one particle gives a group
\* with one label entry, that of its alignment row.
C26_SingletonViewOfListLabels ==
    (grp_pc = "out" /\ grp_shape = "list") =>
        /\ ~grp_out.raised
        /\ \A i \in 1..Len(grp_ref) :
              (\A j \in 1..Len(grp_ref) : grp_ref[j] = grp_ref[i] => j = i)
              => \E g \in 1..Len(grp_out.group) :
                    /\ grp_out.group[g].view = grp_ref[i]
                    /\ grp_out.group[g].label = <<grp_label[i]>>
                    /\ grp_out.group[g].align = <<i>>

----
\* More properties of a run.

\* Particle j of view v is in the registry: its micrograph has a key and
\* the list of the key holds its slice index + 1.
InRegistry(v, j) ==
    LET p == GroupOf(group, v).label[j]
    IN  /\ MicKey(label_shape, p) \in DOMAIN sel_by_mic
        /\ IndexValue(label_shape, p) \in SeqSet(sel_by_mic[MicKey(label_shape, p)])

\* C23: the decision process returns for a view (rsel) is the select column
\* it persisted (sel), and for every view merged by reduce_all or by
\* finalize a particle's persisted select flag is true exactly when its
\* index is in the registry.
C23_PersistedFlagIsRegistryDecision ==
    /\ \A val \in inflight :
          ~val.rsel.none => val.rsel.sel = artifact[val.input.view]
    /\ \A v \in DOMAIN merged :
          /\ merged[v] = artifact[v]
          /\ \A j \in 1..Len(artifact[v]) : artifact[v][j] <=> InRegistry(v, j)

C23_Witness ==
    /\ pc = "done"
    /\ \E v \in processed \cap DOMAIN merged :
          \E j, k \in 1..Len(artifact[v]) : artifact[v][j] /\ ~artifact[v][k]
    /\ \E v \in GroupViews(finished) \cap DOMAIN merged :
          \E j, k \in 1..Len(artifact[v]) : artifact[v][j] /\ ~artifact[v][k]


\* C30: every key of sel_by_mic has a non-empty list at all times, and
\* finalize writes a record only for a micrograph with an accepted particle,
\* never an empty record.
C30_NoKeyWithoutAcceptedParticle ==
    /\ \A k \in DOMAIN sel_by_mic :
          /\ Len(sel_by_mic[k]) >= 1
          /\ AcceptedIndices(k) # {}
    /\ \A r \in 1..Len(records) :
          /\ Len(records[r].rows) >= 1
          /\ AcceptedIndices(records[r].spiderid) # {}

C30_Witness ==
    /\ pc = "done"
    /\ records # <<>>
    /\ \E v \in DOMAIN merged : \E j \in 1..Len(merged[v]) :
          /\ ~merged[v][j]
          /\ AcceptedIndices(MicKey(label_shape, GroupOf(group, v).label[j])) = {}
          /\ MicKey(label_shape, GroupOf(group, v).label[j]) \notin DOMAIN sel_by_mic
          /\ MicKey(label_shape, GroupOf(group, v).label[j]) \notin WrittenIds

\* ---- analysis.running_variance and analysis.otsu.  The module is Python 2
\* without true division: "/" between integer arrays or integer scalars is
\* floor division, between floating point ones it is the quotient.  Values
\* are kept as exact fractions [n, d] in lowest terms with d > 0; an array of
\* dtype "int" only ever holds fractions with d = 1.
MaxOtsuLen == 4
MaxPix == 2
MaxBins == 4

RECURSIVE Gcd(_, _)
Gcd(a, b) == IF b = 0 THEN a ELSE Gcd(b, a % b)

Frac(n, d) ==
    LET g == Gcd(Abs(n), d)
    IN  [n |-> n \div g, d |-> d \div g]

Whole(v) == [n |-> v, d |-> 1]
FracAdd(a, b) == Frac(a.n * b.d + b.n * a.d, a.d * b.d)
FracSub(a, b) == Frac(a.n * b.d - b.n * a.d, a.d * b.d)
FracMul(a, b) == Frac(a.n * b.n, a.d * b.d)
FracLeq(a, b) == a.n * b.d <= b.n * a.d

\* "/" of the module: a / k for a positive integer k
Divide(dtype, a, k) ==
    IF dtype = "int" THEN Whole(a.n \div k) ELSE Frac(a.n, a.d * k)

\* numpy.array(data): the values in the arithmetic of their dtype
NumpyArray(data) == [i \in 1..Len(data) |-> Whole(data[i])]

Flipud(x) == [i \in 1..Len(x) |-> x[Len(x) + 1 - i]]

RECURSIVE Cumsum(_)
Cumsum(x) ==
    IF x = <<>> THEN <<>>
    ELSE LET p == Cumsum(SubSeq(x, 1, Len(x) - 1))
         IN  Append(p, IF p = <<>> THEN x[Len(x)]
                       ELSE FracAdd(p[Len(p)], x[Len(x)]))

RunningVariance(dtype, x) ==
    LET n == Len(x)
        c == Cumsum(x)
        m == [i \in 1..n |-> Divide(dtype, c[i], i)]
        x_minus_mprev == [k \in 1..(n - 1) |-> FracSub(x[k + 1], m[k])]
        x_minus_m == [k \in 1..(n - 1) |-> FracSub(x[k + 1], m[k + 1])]
        s == Cumsum([k \in 1..(n - 1) |-> FracMul(x_minus_mprev[k], x_minus_m[k])])
        var == [k \in 1..(n - 1) |-> Divide(dtype, s[k], k + 1)]
    IN  <<Whole(0)>> \o var

RECURSIVE InsertSorted(_, _)
InsertSorted(s, v) ==
    IF s = <<>> THEN <<v>>
    ELSE IF FracLeq(v, s[1]) THEN <<v>> \o s
    ELSE <<s[1]>> \o InsertSorted(Tail(s), v)

RECURSIVE NumpySort(_)
NumpySort(x) ==
    IF x = <<>> THEN <<>>
    ELSE InsertSorted(NumpySort(Tail(x)), x[1])

\* int(numpy.sqrt(n))
IntSqrt(n) == CHOOSE r \in 0..n : r * r <= n /\ (r + 1) * (r + 1) > n

OtsuBins(n, bins) ==
    LET b == IF bins <= 0 THEN IntSqrt(n) ELSE bins
    IN  IF b > n THEN n ELSE b

\* number of elements of arange(0, n-1, rng), of arange(1, n, rng) and of
\* data[1:n:rng]
Candidates(n, rng) == IF n <= 1 THEN 0 ELSE (n - 1 + rng - 1) \div rng

Thresholds(data, rng) ==
    [k \in 1..Candidates(Len(data), rng) |-> data[2 + (k - 1) * rng]]

Scores(dtype, data, rng) ==
    LET n == Len(data)
        var == RunningVariance(dtype, data)
        rvar == Flipud(RunningVariance(dtype, Flipud(data)))
        score_low == [k \in 1..Candidates(n, rng) |->
                        FracMul(var[1 + (k - 1) * rng], Whole((k - 1) * rng))]
        score_high == [k \in 1..Candidates(n, rng) |->
                        FracMul(rvar[2 + (k - 1) * rng], Whole(n - 1 - (k - 1) * rng))]
    IN  [k \in 1..Candidates(n, rng) |-> FracAdd(score_low[k], score_high[k])]

\* numpy.argwhere(scores == scores.min()).flatten(), as positions 1..
ArgwhereMin(scores) ==
    {k \in 1..Len(scores) : \A j \in 1..Len(scores) : FracLeq(scores[k], scores[j])}

SetMin(S) == CHOOSE k \in S : \A j \in S : k <= j

OtsuRaised(error) == [raised |-> TRUE, error |-> error, value |-> Whole(0)]
OtsuReturned(v) == [raised |-> FALSE, error |-> "", value |-> v]

\* the return statement of the mutant: the threshold of the chosen candidate
OtsuResultAtIndex(dtype, thresholds, index) == thresholds[index]

OtsuResult(dtype, thresholds, index) ==
    LET index_low == IF index = 1 THEN 1 ELSE index - 1
        index_high == IF index = Len(thresholds) THEN Len(thresholds) ELSE index + 1
    IN  Divide(dtype, FracAdd(thresholds[index_low], thresholds[index_high]), 2)

\* thresholds[0] of an array without elements raises IndexError
FirstThreshold(thresholds) ==
    IF thresholds = <<>> THEN OtsuRaised("IndexError")
    ELSE OtsuReturned(thresholds[1])

Otsu(dtype, values, bins) ==
    LET n == Len(values)
        b == OtsuBins(n, bins)
        data == NumpySort(NumpyArray(values))
    IN  IF b = 0 THEN OtsuRaised("ZeroDivisionError")
        ELSE LET rng == n \div b
                 thresholds == Thresholds(data, rng)
                 scores == Scores(dtype, data, rng)
                 index == ArgwhereMin(scores)
             IN  IF Len(scores) = 0 THEN FirstThreshold(thresholds)
                 ELSE IF index = {} THEN FirstThreshold(thresholds)
                 ELSE OtsuReturned(OtsuResult(dtype, thresholds, SetMin(index)))

\* ---- Specification SpecOtsu: running_variance and otsu on drawn arrays.
InitOtsu ==
    /\ otsu_pc = "in"
    /\ otsu_call \in {"running_variance", "otsu"}
    /\ otsu_dtype \in {"int", "float"}
    /\ otsu_data \in SeqsUpTo(0..MaxPix, MaxOtsuLen)
    /\ otsu_bins \in IF otsu_call = "otsu" THEN 0..MaxBins ELSE {0}
    /\ otsu_out = [raised |-> FALSE]
    /\ UpdIdle
    /\ GrpIdle
    /\ RunIdle
    /\ OccIdle
    /\ PcaIdle
    /\ OcsIdle
    /\ ArtIdle
    /\ PrepIdle

ApplyRunningVariance ==
    /\ otsu_pc = "in"
    /\ otsu_call = "running_variance"
    /\ otsu_pc' = "out"
    /\ otsu_out' = [raised |-> FALSE,
                    var |-> RunningVariance(otsu_dtype, NumpyArray(otsu_data))]
    /\ UNCHANGED <<otsu_call, otsu_dtype, otsu_data, otsu_bins>>
    /\ UNCHANGED <<UpdVars, GrpVars, RunVars, OccVars, PcaVars, OcsVars, ArtVars,
                   PrepVars>>

ApplyOtsu ==
    /\ otsu_pc = "in"
    /\ otsu_call = "otsu"
    /\ otsu_pc' = "out"
    /\ otsu_out' = Otsu(otsu_dtype, otsu_data, otsu_bins)
    /\ UNCHANGED <<otsu_call, otsu_dtype, otsu_data, otsu_bins>>
    /\ UNCHANGED <<UpdVars, GrpVars, RunVars, OccVars, PcaVars, OcsVars, ArtVars,
                   PrepVars>>

NextOtsu == ApplyRunningVariance \/ ApplyOtsu

SpecOtsu == InitOtsu /\ [][NextOtsu]_vars

\* ---- Properties of running_variance and otsu.
IsSorted(x) == \A i \in 1..(Len(x) - 1) : x[i] <= x[i + 1]

RECURSIVE SumOf(_, _)
SumOf(x, i) == IF i = 0 THEN 0 ELSE SumOf(x, i - 1) + x[i]

RECURSIVE SquaredDeviations(_, _, _)
\* sum over j <= k of (i * x[j] - (x[1] + ... + x[i]))^2, for the prefix of
\* length i
SquaredDeviations(x, i, k) ==
    IF k = 0 THEN 0
    ELSE SquaredDeviations(x, i, k - 1)
         + (i * x[k] - SumOf(x, i)) * (i * x[k] - SumOf(x, i))

\* the variance of the first i values, recomputed directly: the mean of
\* the squared deviations from the mean of the prefix
PrefixVariance(x, i) == Frac(SquaredDeviations(x, i, i), i * i * i)

RunningVarianceReturned ==
    otsu_pc = "out" /\ otsu_call = "running_variance"

\* C21: for every non-empty sorted array x, running_variance(x) is as long as
\* x, starts with 0, and gives at every later position the variance of the
\* prefix that ends there, recomputed directly.
C21_RunningVarianceIsPrefixVariance ==
    (RunningVarianceReturned /\ otsu_data # <<>> /\ IsSorted(otsu_data)) =>
        /\ Len(otsu_out.var) = Len(otsu_data)
        /\ otsu_out.var[1] = Whole(0)
        /\ \A i \in 2..Len(otsu_data) :
              otsu_out.var[i] = PrefixVariance(otsu_data, i)

\* The same for arrays of floating point values only.
RunningVarianceOfFloats ==
    (RunningVarianceReturned /\ otsu_data # <<>> /\ IsSorted(otsu_data)
        /\ otsu_dtype = "float") =>
        /\ Len(otsu_out.var) = Len(otsu_data)
        /\ otsu_out.var[1] = Whole(0)
        /\ \A i \in 2..Len(otsu_data) :
              otsu_out.var[i] = PrefixVariance(otsu_data, i)

OtsuReturnedOrRaised == otsu_pc = "out" /\ otsu_call = "otsu"

OtsuRng == Len(otsu_data) \div OtsuBins(Len(otsu_data), otsu_bins)

OtsuThresholds == Thresholds(NumpySort(NumpyArray(otsu_data)), OtsuRng)

OtsuScores == Scores(otsu_dtype, NumpySort(NumpyArray(otsu_data)), OtsuRng)

\* C22: with zero or one scoring candidate (data of length 1 or 2) otsu
\* returns the first candidate threshold and does not fail.
C22_DegenerateReturnsFirstThreshold ==
    (OtsuReturnedOrRaised /\ Len(otsu_data) \in {1, 2}) =>
        /\ ~otsu_out.raised
        /\ otsu_out.value = NumpySort(NumpyArray(otsu_data))[Len(otsu_data)]

\* With exactly one scoring candidate otsu returns that candidate's threshold.
OneCandidateReturnsIt ==
    (OtsuReturnedOrRaised /\ Len(otsu_data) = 2) =>
        /\ ~otsu_out.raised
        /\ otsu_out.value = OtsuThresholds[1]

UniqueMinimizer ==
    /\ OtsuReturnedOrRaised
    /\ Len(otsu_data) > 0
    /\ Cardinality(ArgwhereMin(OtsuScores)) = 1

\* C27 as stated: when the minimizing candidate is unique, otsu returns that
\* candidate's threshold.
C27_UniqueMinimizerReturnsItsThreshold ==
    UniqueMinimizer =>
        /\ ~otsu_out.raised
        /\ otsu_out.value = OtsuThresholds[SetMin(ArgwhereMin(OtsuScores))]

\* the neighbours of position k among the candidates, clamped to the ends
LowerNeighbour(k) == IF k = 1 THEN 1 ELSE k - 1
UpperNeighbour(k) == IF k = Len(OtsuThresholds) THEN k ELSE k + 1

Halved(dtype, a, v) ==
    IF dtype = "int" THEN v.d = 1 /\ 2 * v.n <= a.n /\ a.n < 2 * v.n + 2
    ELSE FracAdd(v, v) = a

\* C27 (amended): whenever otsu has a scoring candidate it returns half the
\* sum of the two thresholds next to the first minimizing candidate (the
\* candidate itself at an end of the list), whether the minimum is unique or
\* tied; the half is the floor for integer data.
C27_MidpointOfNeighbours ==
    (OtsuReturnedOrRaised /\ Len(otsu_data) > 1) =>
        /\ ~otsu_out.raised
        /\ \E k \in ArgwhereMin(OtsuScores) :
              /\ \A j \in ArgwhereMin(OtsuScores) : k <= j
              /\ Halved(otsu_dtype,
                        FracAdd(OtsuThresholds[LowerNeighbour(k)],
                                OtsuThresholds[UpperNeighbour(k)]),
                        otsu_out.value)

\* a unique minimizer in the middle of the list whose neighbours' midpoint
\* differs from its own threshold
C27_Witness ==
    /\ UniqueMinimizer
    /\ ~otsu_out.raised
    /\ \E k \in ArgwhereMin(OtsuScores) :
          /\ 1 < k
          /\ k < Len(OtsuThresholds)
          /\ otsu_out.value # OtsuThresholds[k]

\* ---- The per-view artifact.  process writes one table per view with
\* write_dataset; finalize reads it back and slices the feature matrix out of
\* it.  A column is [kind, name, i]: an "id" column, a "meta" column with
\* its header name, or the i-th column of feat.

\* the header handed to write_dataset, in the order of the hstack
MetaColumns(shape) ==
    IF shape = "tuple"
    THEN <<"select", "dist", "rot", "group", "psi", "tx", "ty", "mirror">>
    ELSE <<"select", "dist", "rot", "psi", "tx", "ty", "mirror">>

\* numpy.hstack((sel, dist, rot, [group,] psi, tx, ty, mirror, feat))
ProcessTable(shape, nfeat) ==
    [k \in 1..Len(MetaColumns(shape)) |->
        [kind |-> "meta", name |-> MetaColumns(shape)[k], i |-> 0]]
    \o [k \in 1..nfeat |-> [kind |-> "feat", name |-> "c", i |-> k]]

\* format.read followed by tuple2numpy: the columns of the table as an array,
\* behind the id column if the format keeps one
ReadTable(table, idcol) ==
    IF idcol THEN <<[kind |-> "id", name |-> "id", i |-> 0]>> \o table
    ELSE table

\* feat[:, 6:]
FinalizeFeat(cols) == SubSeq(cols, 7, Len(cols))

\* ---- Specification SpecArtifact: process writes the artifact of a view and
\* finalize recovers the feature matrix from it.
InitArtifact ==
    /\ art_pc = "in"
    /\ art_shape \in Shapes
    /\ art_nfeat \in 1..MaxFeat
    /\ art_neig \in 1..MaxFeat
    /\ art_sel \in [1..NSamples -> BOOLEAN]
    /\ art_idcol \in BOOLEAN
    /\ art_table = [columns |-> <<>>, select |-> <<>>]
    /\ art_feat = <<>>
    /\ UpdIdle
    /\ GrpIdle
    /\ RunIdle
    /\ OccIdle
    /\ PcaIdle
    /\ OcsIdle
    /\ OtsuIdle
    /\ PrepIdle

ProcessWrite ==
    /\ art_pc = "in"
    /\ art_pc' = "written"
    /\ art_table' = [columns |-> ProcessTable(art_shape, art_nfeat), select |-> art_sel]
    /\ UNCHANGED <<art_shape, art_nfeat, art_neig, art_sel, art_idcol, art_feat>>
    /\ UNCHANGED <<UpdVars, GrpVars, RunVars, OccVars, PcaVars, OcsVars, OtsuVars,
                   PrepVars>>

FinalizeRead ==
    /\ art_pc = "written"
    /\ art_pc' = "read"
    /\ art_feat' = FinalizeFeat(ReadTable(art_table.columns, art_idcol))
    /\ UNCHANGED <<art_shape, art_nfeat, art_neig, art_sel, art_idcol, art_table>>
    /\ UNCHANGED <<UpdVars, GrpVars, RunVars, OccVars, PcaVars, OcsVars, OtsuVars,
                   PrepVars>>

NextArtifact == ProcessWrite \/ FinalizeRead

SpecArtifact == InitArtifact /\ [][NextArtifact]_vars

\* ---- Properties of the artifact.
\* the columns of feat that process classified inline
InlineFeat == [k \in 1..art_nfeat |-> [kind |-> "feat", name |-> "c", i |-> k]]

\* feat[:, :neig], the columns one_class_classification fits
FirstColumns(feat, neig) == SubSeq(feat, 1, Smaller(neig, Len(feat)))

\* C25: the feature matrix finalize recovers from the artifact of a view is
\* exactly the feature columns process wrote behind the metadata columns, for
\* both label shapes, so that the re-classification fits the columns that
\* were fitted inline.
C25_FinalizeRecoversFeatureColumns ==
    art_pc = "read" =>
        /\ art_feat = InlineFeat
        /\ FirstColumns(art_feat, art_neig) = FirstColumns(InlineFeat, art_neig)

\* Every feature column is recovered, behind at least one metadata column.
FinalizeKeepsMetadataColumn ==
    art_pc = "read" =>
        /\ art_feat[1].kind = "meta"
        /\ SubSeq(art_feat, Len(art_feat) - art_nfeat + 1, Len(art_feat)) = InlineFeat

\* ---- spider_prep.batch.  Micrograph names are the numbers 1..NFileNames; a
\* row of the selection is [filename, index].
MaxFiles == 2
NFileNames == 3
MaxRecorded == 2

RECURSIVE BatchLater(_, _, _, _, _, _)
\* the loop of a later run over files[i..]: check is the selection read from
\* the selection file, index the next free index
BatchLater(files, i, check, exists, index, acc) ==
    IF i > Len(files) THEN acc
    ELSE LET filename == files[i]
             known == {k \in 1..Len(check) : check[k].filename = filename}
         IN  IF known = {}
             THEN BatchLater(files, i + 1, check, exists, index + 1,
                    [selection |-> Append(acc.selection,
                                          [filename |-> filename, index |-> index]),
                     update |-> Append(acc.update,
                                       [filename |-> filename, index |-> index])])
             ELSE IF index \notin exists
             THEN BatchLater(files, i + 1, check, exists, index,
                    [selection |-> acc.selection,
                     update |-> Append(acc.update,
                        [filename |-> filename,
                         index |-> check[CHOOSE k \in known : \A j \in known : j <= k].index])])
             ELSE BatchLater(files, i + 1, check, exists, index, acc)

\* the loop of a first run: index stays 1
BatchFirst(files) ==
    LET selection == [i \in 1..Len(files) |-> [filename |-> files[i], index |-> 1]]
    IN  [selection |-> selection, update |-> selection]

\* os.path.splitext(selection) is handed the list and raises AttributeError:
\* the selection file is not written and the conversion loop is not reached
Batch(files, recorded, exists) ==
    LET loop == IF recorded.exists
                THEN BatchLater(files, 1, recorded.rows, exists,
                                Len(recorded.rows) + 1,
                                [selection |-> recorded.rows, update |-> <<>>])
                ELSE BatchFirst(files)
    IN  [raised |-> TRUE, error |-> "AttributeError",
         selection |-> loop.selection, update |-> loop.update, written |-> <<>>]

\* ---- Specification SpecPrep: batch on drawn lists of distinct files, with
\* or without a selection file of an earlier run.
InitPrep ==
    /\ prep_pc = "in"
    /\ prep_files \in {s \in SeqsUpTo(1..NFileNames, MaxFiles) : NoDuplicates(s)}
    /\ \E exists \in BOOLEAN :
       \E s \in {t \in SeqsUpTo(1..NFileNames, MaxRecorded) : NoDuplicates(t)} :
          /\ exists \/ s = <<>>
          /\ prep_recorded = [exists |-> exists,
                              rows |-> [i \in 1..Len(s) |->
                                          [filename |-> s[i], index |-> i]]]
    /\ prep_exists \in IF prep_recorded.exists
                       THEN SUBSET ((Len(prep_recorded.rows) + 1)
                                    ..(Len(prep_recorded.rows) + Len(prep_files)))
                       ELSE {{}}
    /\ prep_out = [raised |-> FALSE]
    /\ UpdIdle
    /\ GrpIdle
    /\ RunIdle
    /\ OccIdle
    /\ PcaIdle
    /\ OcsIdle
    /\ OtsuIdle
    /\ ArtIdle

ApplyBatch ==
    /\ prep_pc = "in"
    /\ prep_pc' = "out"
    /\ prep_out' = Batch(prep_files, prep_recorded, prep_exists)
    /\ UNCHANGED <<prep_files, prep_recorded, prep_exists>>
    /\ UNCHANGED <<UpdVars, GrpVars, RunVars, OccVars, PcaVars, OcsVars, OtsuVars,
                   ArtVars>>

NextPrep == ApplyBatch

SpecPrep == InitPrep /\ [][NextPrep]_vars

\* ---- Properties of batch.
\* the indices the selection gives to a file
IndicesOf(selection, filename) ==
    {selection[k].index : k \in {j \in 1..Len(selection) : selection[j].filename = filename}}

\* C28: batch gives every input file one SPIDER index and different files
\* different indices: n different indices on a first run; on a later run the
\* recorded files keep their index and the new files continue after the
\* recorded ones.
C28_DistinctIndexPerFile ==
    prep_pc = "out" =>
        /\ \A i \in 1..Len(prep_files) :
              Cardinality(IndicesOf(prep_out.selection, prep_files[i])) = 1
        /\ \A i, j \in 1..Len(prep_files) :
              i # j => IndicesOf(prep_out.selection, prep_files[i])
                       # IndicesOf(prep_out.selection, prep_files[j])
        /\ \A k \in 1..Len(prep_recorded.rows) :
              prep_out.selection[k] = prep_recorded.rows[k]
        /\ \A k \in (Len(prep_recorded.rows) + 1)..Len(prep_out.selection) :
              prep_out.selection[k].index = k

\* On a later run the selection batch builds gives different files different
\* indices, the recorded ones theirs and the new ones the next free ones.
LaterRunDistinctIndices ==
    (prep_pc = "out" /\ prep_recorded.exists) =>
        /\ \A i \in 1..Len(prep_files) :
              Cardinality(IndicesOf(prep_out.selection, prep_files[i])) = 1
        /\ \A k \in 1..Len(prep_out.selection) : prep_out.selection[k].index = k
        /\ \A k \in 1..Len(prep_recorded.rows) :
              prep_out.selection[k] = prep_recorded.rows[k]

\* batch never gets as far as writing the selection file
BatchRaises == prep_pc = "out" => prep_out.raised /\ prep_out.written = <<>>

====
